---- MODULE Spec2Model ----
(***************************************************************************)
(* distube-invidious: the Cipher Session (src/src/cipherDecoder.ts) and    *)
(* the Stream Selector (InvidiousPlugin.getStreamURL, src/src/index.ts).   *)
(*                                                                         *)
(* Spec        the Cipher Session: decodeN calls interleaved at every      *)
(*             await of getPlayerUrl / getPlayerCode / getTransform.       *)
(* LiveSpec    Spec with the fairness the runtime's scheduling gives.      *)
(* SelectSpec  one getStreamURL call on a metadata response, for each      *)
(*             revision of getStreamURL the repository holds.              *)
(* XfSpec      buildOperations / buildTransform on a helper body and the   *)
(*             calls of the decipher function, and the Transform applied.  *)
(* FixSpec     one fixUrl call, its decodeN settling either way.           *)
(* UrlSpec     the plugin's constructor and validate / resolve / playlist  *)
(*             on a URL (index.ts, url-utils).                             *)
(* ExtSpec     one run of an extractor's pattern list on a text.           *)
(***************************************************************************)
EXTENDS Integers, Sequences, FiniteSets, TLC

\* ------------------------------------------------------------------ bounds
NumCallers == 2
MaxCalls == 2

VARIABLES
  cachedTransform,   \* cipherDecoder.ts:135  "null" or the script the Transform was built from
  cachedPlayerUrl,   \* cipherDecoder.ts:136  "null" or the player script URL
  cachedPlayerCode,  \* cipherDecoder.ts:137  "null" or the player script text
  pc,                \* per decodeN call: the await it is suspended at
  jsCode,            \* per call: getTransform's local jsCode (line 341)
  err,               \* per call: the error the call rejected with
  hist,              \* per call, history: how the call began and what it did
  upstream,          \* environment: "flaky" or "good" (serves a correct page and script)
  watchFetches,      \* history: fetches of the watch page issued (line 145)
  playerFetches,     \* history: fetches of the player script issued (line 180)
  builds,            \* history: times line 350 cached a Transform
  started,           \* history: decodeN calls started
  finished,          \* history: decodeN calls that returned or rejected
  failures,          \* history: decodeN calls that rejected
  overlapped         \* history: some call started while another was in flight

VARIABLES
  ver,               \* which revision of getStreamURL runs
  formatStreams,     \* data.formatStreams of the metadata response
  adaptiveFormats,   \* data.adaptiveFormats of the metadata response
  spc,               \* getStreamURL: "start", "selecting", "returned", "threw"
  pos,               \* getStreamURL: index of the next tryUrl call of the plan
  tried,             \* history: the reachability probes issued, with their outcome
  result,            \* the URL getStreamURL returned
  serr               \* the error getStreamURL rejected with

VARIABLES
  cver,              \* which definition of the cipher decoder built the table
  helperBody,        \* the helper object text: its entries name:function(a,b){body}
  fnCalls,           \* the n-function body: its calls obj.method(a, arg), in order
  operations,        \* buildOperations: the table, mnemonic -> operation
  steps,             \* buildTransform: the instruction list closed over
  tpc,               \* "idle", "source", "ready", "called"
  call               \* the last call made on the table or on the Transform
                     \* (nth, history: 1 for the first call, 2 for a later one)

VARIABLES
  fxUrl,             \* fixUrl: the URL it was called with
  fxPc,              \* fixUrl: "idle", "start", "awaitDecode", "returned", "threw"
  fxOut,             \* fixUrl: the URL it resolved to
  fxWarn             \* fixUrl: the message it logged with console.warn, or "none"

VARIABLES
  yurl,              \* url-utils: the URL a function was called with
  ypc,               \* "idle", "new", "start", "validated", "requested", "threw"
  yout,              \* what validate returned
  yopt,              \* options.instance the plugin was constructed with
  instance,          \* index.ts:887 the plugin's instance field
  ygen,              \* history: plugins constructed, each from the one before
  yvia,              \* history: the methods the URL went through, in call order
  yreq,              \* the API URL a method asked fetchWithTimeout for
  yerr               \* the message of the error a method threw, or "none"

VARIABLES
  xkind,             \* extractors: which extractor runs
  xfinds,            \* what each pattern of its list finds in the text, in list order
  xpc,               \* "idle", "start", "returned", "threw"
  xout,              \* the value the extractor returned
  xerr               \* the message of the error it threw, or "none"

selVars == <<ver, formatStreams, adaptiveFormats, spc, pos, tried, result, serr>>

xfVars == <<cver, helperBody, fnCalls, operations, steps, tpc, call>>
fixVars == <<fxUrl, fxPc, fxOut, fxWarn>>
urlVars == <<yurl, ypc, yout, yopt, instance, ygen, yvia, yreq, yerr>>
extVars == <<xkind, xfinds, xpc, xout, xerr>>
pureVars == <<xfVars, fixVars, urlVars, extVars>>

cipherVars == <<cachedTransform, cachedPlayerUrl, cachedPlayerCode, pc, jsCode, err,
                hist, upstream, watchFetches, playerFetches, builds, started,
                finished, failures, overlapped>>

Callers == 1..NumCallers

\* ------------------------------------------------------- upstream contents
\* Player script texts, by what the extractors of getTransform find in them.
\* "" is an OK response with an empty body.
GoodScript == "script:good"
Scripts == {GoodScript, "script:noFnName", "script:noFnBody",
            "script:noHelperName", "script:noHelperBody", ""}

\* Watch pages: one that carries "jsUrl":"/s/player/x/base.js", one that matches
\* none of the four patterns of getPlayerUrl.
GoodPage == "page:jsUrl"
Pages == {GoodPage, "page:noPattern"}

\* What a fetch() promise settles to: rejected, a non-OK response, an OK response.
FetchOutcomes == {"refused", "nonOK", "ok"}

\* JavaScript truthiness of string | null as used by `if (cachedX)`.
Truthy(x) == x # "null" /\ x # ""

\* What the upstream may answer now: anything while flaky, only the correct
\* answer once it is good.
OutcomesNow == IF upstream = "good" THEN {"ok"} ELSE FetchOutcomes
PagesNow == IF upstream = "good" THEN {GoodPage} ELSE Pages
ScriptsNow == IF upstream = "good" THEN {GoodScript} ELSE Scripts

\* ------------------------------------------------------------- extractors
\* getPlayerUrl lines 152-170: first matching pattern's capture, prefixed.
PlayerUrlOf(html) ==
  IF html = GoodPage THEN "https://www.youtube.com/s/player/x/base.js" ELSE "null"

\* The extraction step of getTransform (lines 343-346) that throws on jsCode,
\* or "none" when all four succeed.
ExtractionError(code) ==
  CASE code \in {"script:noFnName", ""} -> "fnName"
    [] code = "script:noFnBody" -> "fnBody"
    [] code = "script:noHelperName" -> "helperName"
    [] code = "script:noHelperBody" -> "helperBody"
    [] OTHER -> "none"

\* buildOperations + buildTransform (lines 347-348): the Transform of a script.
TransformOf(code) == "transform:" \o code

\* getTransform lines 343-351 on jsCode: the value of cachedTransform afterwards.
MutCacheBeforeExtraction(code, old) == TransformOf(code)
CachedAfterBuild(code, old) ==
  IF ExtractionError(code) = "none" THEN TransformOf(code) ELSE old

\* getPlayerCode lines 184-185: the value of cachedPlayerCode after the text
\* of the response was read.
MutCodeNotCached(code, old) == old
CachedAfterRead(code, old) == code

\* getTransform line 339: whether the call returns the cached Transform at once.
MutNeverReady(t) == FALSE
TransformReady(t) == t # "null"

\* ------------------------------------------------------------------- Init
NoHist == [ready |-> FALSE, good |-> FALSE, afterFailure |-> FALSE,
           net |-> FALSE, extracted |-> FALSE]

CipherInit ==
  /\ cachedTransform = "null"
  /\ cachedPlayerUrl = "null"
  /\ cachedPlayerCode = "null"
  /\ pc = [i \in Callers |-> "idle"]
  /\ jsCode = [i \in Callers |-> "null"]
  /\ err = [i \in Callers |-> "none"]
  /\ hist = [i \in Callers |-> NoHist]
  /\ upstream = "flaky"
  /\ watchFetches = 0
  /\ playerFetches = 0
  /\ builds = 0
  /\ started = 0
  /\ finished = 0
  /\ failures = 0
  /\ overlapped = FALSE

InFlight(i) == pc[i] \notin {"idle", "done", "failed"}

\* A call rejects with error e.
Reject(i, e) ==
  /\ pc' = [pc EXCEPT ![i] = "failed"]
  /\ err' = [err EXCEPT ![i] = e]
  /\ finished' = finished + 1
  /\ failures' = failures + 1

\* ---------------------------------------------------------------- actions
\* decodeN(n) is called (line 357): getTransform, getPlayerCode and getPlayerUrl
\* run synchronously up to the first await.
Start(i) ==
  /\ ~InFlight(i)
  /\ started < MaxCalls
  /\ started' = started + 1
  /\ overlapped' = (overlapped \/ \E j \in Callers : InFlight(j))
  /\ err' = [err EXCEPT ![i] = "none"]
  /\ hist' = [hist EXCEPT ![i] =
                [ready |-> cachedTransform # "null",
                 good |-> upstream = "good",
                 afterFailure |-> failures > 0,
                 net |-> ~TransformReady(cachedTransform)
                         /\ ~Truthy(cachedPlayerCode) /\ ~Truthy(cachedPlayerUrl),
                 extracted |-> FALSE]]
  /\ IF TransformReady(cachedTransform)
       THEN \* line 339
            /\ pc' = [pc EXCEPT ![i] = "haveTransform"]
            /\ UNCHANGED <<jsCode, watchFetches>>
       ELSE IF Truthy(cachedPlayerCode)
       THEN \* line 177
            /\ pc' = [pc EXCEPT ![i] = "afterCode"]
            /\ jsCode' = [jsCode EXCEPT ![i] = cachedPlayerCode]
            /\ UNCHANGED watchFetches
       ELSE IF Truthy(cachedPlayerUrl)
       THEN \* line 143
            /\ pc' = [pc EXCEPT ![i] = "afterUrl"]
            /\ UNCHANGED <<jsCode, watchFetches>>
       ELSE \* line 145: fetch of the watch page
            /\ pc' = [pc EXCEPT ![i] = "awaitWatch"]
            /\ watchFetches' = watchFetches + 1
            /\ UNCHANGED jsCode
  /\ UNCHANGED <<cachedTransform, cachedPlayerUrl, cachedPlayerCode, upstream,
                 playerFetches, builds, finished, failures>>
  /\ UNCHANGED <<selVars, pureVars>>

\* The watch-page fetch settles (lines 145-149).
WatchResponse(i) ==
  /\ pc[i] = "awaitWatch"
  /\ \E r \in OutcomesNow :
       CASE r = "refused" -> Reject(i, "watchFetch")
         [] r = "nonOK" -> Reject(i, "watchStatus")
         [] OTHER -> /\ pc' = [pc EXCEPT ![i] = "awaitWatchText"]
                     /\ UNCHANGED <<err, finished, failures>>
  /\ UNCHANGED <<cachedTransform, cachedPlayerUrl, cachedPlayerCode, jsCode, hist,
                 upstream, watchFetches, playerFetches, builds, started, overlapped>>
  /\ UNCHANGED <<selVars, pureVars>>

\* res.text() of the watch page settles; the patterns are tried (lines 149-170).
WatchText(i) ==
  /\ pc[i] = "awaitWatchText"
  /\ \E html \in PagesNow :
       IF Truthy(PlayerUrlOf(html))
         THEN /\ cachedPlayerUrl' = PlayerUrlOf(html)
              /\ pc' = [pc EXCEPT ![i] = "afterUrl"]
              /\ UNCHANGED <<err, finished, failures>>
         ELSE /\ Reject(i, "noJsUrl")
              /\ UNCHANGED cachedPlayerUrl
  /\ UNCHANGED <<cachedTransform, cachedPlayerCode, jsCode, hist, upstream,
                 watchFetches, playerFetches, builds, started, overlapped>>
  /\ UNCHANGED <<selVars, pureVars>>

\* getPlayerCode resumes after `await getPlayerUrl()` and fetches the script
\* (lines 179-180).
PlayerFetch(i) ==
  /\ pc[i] = "afterUrl"
  /\ pc' = [pc EXCEPT ![i] = "awaitPlayer"]
  /\ playerFetches' = playerFetches + 1
  /\ hist' = [hist EXCEPT ![i].net = TRUE]
  /\ UNCHANGED <<cachedTransform, cachedPlayerUrl, cachedPlayerCode, jsCode, err,
                 upstream, watchFetches, builds, started, finished, failures,
                 overlapped>>
  /\ UNCHANGED <<selVars, pureVars>>

\* The player-script fetch settles (lines 180-183).
PlayerResponse(i) ==
  /\ pc[i] = "awaitPlayer"
  /\ \E r \in OutcomesNow :
       CASE r = "refused" -> Reject(i, "playerFetch")
         [] r = "nonOK" -> Reject(i, "playerStatus")
         [] OTHER -> /\ pc' = [pc EXCEPT ![i] = "awaitPlayerText"]
                     /\ UNCHANGED <<err, finished, failures>>
  /\ UNCHANGED <<cachedTransform, cachedPlayerUrl, cachedPlayerCode, jsCode, hist,
                 upstream, watchFetches, playerFetches, builds, started, overlapped>>
  /\ UNCHANGED <<selVars, pureVars>>

\* res.text() of the player script settles; the text is cached (lines 184-186).
PlayerText(i) ==
  /\ pc[i] = "awaitPlayerText"
  /\ \E code \in ScriptsNow :
       /\ cachedPlayerCode' = CachedAfterRead(code, cachedPlayerCode)
       /\ jsCode' = [jsCode EXCEPT ![i] = code]
  /\ pc' = [pc EXCEPT ![i] = "afterCode"]
  /\ UNCHANGED <<cachedTransform, cachedPlayerUrl, err, hist, upstream, watchFetches,
                 playerFetches, builds, started, finished, failures, overlapped>>
  /\ UNCHANGED <<selVars, pureVars>>

\* getTransform resumes after `await getPlayerCode()`: the four extractions,
\* buildOperations, buildTransform, then the cache write (lines 343-351).
Build(i) ==
  /\ pc[i] = "afterCode"
  /\ hist' = [hist EXCEPT ![i].extracted = TRUE]
  /\ cachedTransform' = CachedAfterBuild(jsCode[i], cachedTransform)
  /\ IF ExtractionError(jsCode[i]) = "none"
       THEN /\ pc' = [pc EXCEPT ![i] = "haveTransform"]
            /\ builds' = builds + 1
            /\ UNCHANGED <<err, finished, failures>>
       ELSE /\ Reject(i, ExtractionError(jsCode[i]))
            /\ UNCHANGED builds
  /\ UNCHANGED <<cachedPlayerUrl, cachedPlayerCode, jsCode, upstream, watchFetches,
                 playerFetches, started, overlapped>>
  /\ UNCHANGED <<selVars, pureVars>>

\* decodeN resumes after `await getTransform()` and applies it (lines 358-359).
Apply(i) ==
  /\ pc[i] = "haveTransform"
  /\ pc' = [pc EXCEPT ![i] = "done"]
  /\ finished' = finished + 1
  /\ UNCHANGED <<cachedTransform, cachedPlayerUrl, cachedPlayerCode, jsCode, err, hist,
                 upstream, watchFetches, playerFetches, builds, started, failures,
                 overlapped>>
  /\ UNCHANGED <<selVars, pureVars>>

\* Environment: the platform stops serving transient errors.
Heal ==
  /\ upstream = "flaky"
  /\ upstream' = "good"
  /\ UNCHANGED <<cachedTransform, cachedPlayerUrl, cachedPlayerCode, pc, jsCode, err,
                 hist, watchFetches, playerFetches, builds, started, finished,
                 failures, overlapped>>
  /\ UNCHANGED <<selVars, pureVars>>

CipherNext ==
  \/ \E i \in Callers : Start(i)
  \/ \E i \in Callers : WatchResponse(i)
  \/ \E i \in Callers : WatchText(i)
  \/ \E i \in Callers : PlayerFetch(i)
  \/ \E i \in Callers : PlayerResponse(i)
  \/ \E i \in Callers : PlayerText(i)
  \/ \E i \in Callers : Build(i)
  \/ \E i \in Callers : Apply(i)
  \/ Heal

vars == <<cipherVars, selVars, pureVars>>

\* ------------------------------------------------ components that are not running
NoCall == [kind |-> "none", name |-> "", arg |-> 0, in |-> <<>>, out |-> <<>>, nth |-> 0]
XfIdle ==
  /\ cver = "none"
  /\ helperBody = <<>>
  /\ fnCalls = <<>>
  /\ operations = <<>>
  /\ steps = <<>>
  /\ tpc = "idle"
  /\ call = NoCall
FixIdle ==
  /\ fxUrl = "none"
  /\ fxPc = "idle"
  /\ fxOut = "none"
  /\ fxWarn = "none"
ExtIdle ==
  /\ xkind = "none"
  /\ xfinds = <<>>
  /\ xpc = "idle"
  /\ xout = [hit |-> FALSE, by |-> 0, text |-> ""]
  /\ xerr = "none"
NoRequest == [base |-> <<>>, path |-> "", id |-> ""]
UrlIdle ==
  /\ yurl = <<>>
  /\ ypc = "idle"
  /\ yout = FALSE
  /\ yopt = <<>>
  /\ instance = <<>>
  /\ ygen = 0
  /\ yvia = <<>>
  /\ yreq = NoRequest
  /\ yerr = "none"

\* =================================================================== Stream Selector
\* ------------------------------------------------------------------ media types
\* The `type` strings of the metadata response (mimeType and encoding are absent).
T_OPUS == "audio/webm; codecs=opus"
T_AAC == "audio/mp4; codecs=mp4a.40.2"
T_OTHER == "audio/ogg; codecs=vorbis"
T_VIDEO == "video/mp4; codecs=avc1.42001e, mp4a.40.2"
Types == {T_OPUS, T_AAC, T_OTHER, T_VIDEO}

\* String.prototype.includes / startsWith on the lower-cased type, for the
\* substrings the selectors ask about.
Includes(m, sub) ==
  CASE m = T_OPUS -> sub \in {"audio/", "webm", "audio/webm", "opus"}
    [] m = T_AAC -> sub \in {"audio/", "mp4", "audio/mp4", "mp4a", "mp4a.40.2"}
    [] m = T_OTHER -> sub \in {"audio/"}
    [] m = T_VIDEO -> sub \in {"mp4", "mp4a", "mp4a.40.2"}
    [] OTHER -> FALSE
StartsWith(m, prefix) ==
  CASE m = T_OPUS -> prefix \in {"audio/", "audio/webm"}
    [] m = T_AAC -> prefix \in {"audio/", "audio/mp4"}
    [] m = T_OTHER -> prefix \in {"audio/"}
    [] OTHER -> FALSE

\* ------------------------------------------------------------------------- URLs
\* A URL is https://host/<id><ext>?<query>, with /dash/ in its path when dash;
\* the empty string has id <<>>.
EmptyUrl == [id |-> <<>>, dash |-> FALSE, ext |-> "", query |-> <<>>]
UrlKinds == {"direct", "ciphered", "mpd", "m3u8", "dash", "empty"}
MkUrl(kind, id) ==
  CASE kind = "direct" -> [id |-> id, dash |-> FALSE, ext |-> "", query |-> <<>>]
    [] kind = "ciphered" -> [id |-> id, dash |-> FALSE, ext |-> "",
                             query |-> << <<"n", "CIPHERED">>, <<"sig", "s">> >>]
    [] kind = "mpd" -> [id |-> id, dash |-> FALSE, ext |-> ".mpd", query |-> <<>>]
    [] kind = "m3u8" -> [id |-> id, dash |-> FALSE, ext |-> ".m3u8", query |-> <<>>]
    [] kind = "dash" -> [id |-> id, dash |-> TRUE, ext |-> "", query |-> <<>>]
    [] OTHER -> EmptyUrl

UrlEmpty(u) == u.id = <<>>
EndsWith(u, e) == u.query = <<>> /\ u.ext = e
HasParam(u, k) == \E j \in 1..Len(u.query) : u.query[j][1] = k
ParamValues(u, k) == {u.query[j][2] : j \in {x \in 1..Len(u.query) : u.query[x][1] = k}}

\* index.ts 483-490 (and 1051-1054)
IsManifestUrl(u) == u.dash \/ EndsWith(u, ".mpd") \/ EndsWith(u, ".m3u8")

\* index.ts 493-499
EnsureRatebypass(u) ==
  IF ~HasParam(u, "ratebypass")
    THEN [u EXCEPT !.query = Append(@, <<"ratebypass", "yes">>)]
    ELSE u

\* --------------------------------------------------------- the metadata response
MaxFormats == 2
Bitrates == {128, 160}
Versions == {"v2", "v3", "dl"}

\* The entries a response is drawn from. An entry that is not audio is skipped
\* before its url is read, and no revision that gets as far as selecting reads
\* bitrate, so one video entry and one bitrate per special URL are enough.
AudioTypes == {T_OPUS, T_AAC, T_OTHER}
FsShapes ==
  [type : AudioTypes, kind : {"direct", "mpd", "empty"}]
  \cup {[type |-> T_VIDEO, kind |-> "direct"]}
AfShapes ==
  [type : AudioTypes, kind : {"direct"}, bitrate : Bitrates]
  \cup [type : AudioTypes, kind : {"ciphered", "m3u8", "dash", "empty"}, bitrate : {128}]
  \cup {[type |-> T_VIDEO, kind |-> "direct", bitrate |-> 128]}
SeqUpTo(S, n) == UNION {[1..k -> S] : k \in 0..n}

MkFormatStreams(sh) ==
  [i \in 1..Len(sh) |-> [type |-> sh[i].type, url |-> MkUrl(sh[i].kind, <<"fs", i>>)]]
MkAdaptiveFormats(sh) ==
  [i \in 1..Len(sh) |-> [type |-> sh[i].type, url |-> MkUrl(sh[i].kind, <<"af", i>>),
                         bitrate |-> sh[i].bitrate]]

\* (format.mimeType || format.type || "").toLowerCase()
Mime(f) == f.type

\* index.ts 502-512
IsAudioFormat(f, codec) ==
  IF codec # "" /\ StartsWith(Mime(f), "audio/")
    THEN Includes(Mime(f), codec)
    ELSE StartsWith(Mime(f), "audio/")

\* index.ts 570-574, 582-588: the two tests of the formatStreams loop
FsIsOpus(f) == IsAudioFormat(f, "webm") /\ Includes(f.type, "opus")
FsIsAac(f) ==
  IsAudioFormat(f, "mp4") /\ (Includes(f.type, "mp4a") \/ Includes(f.type, "aac"))
\* index.ts 615-620, 630-637: the tests of the adaptiveFormats loops
AfIsOpus(f) == IsAudioFormat(f, "webm") /\ Includes(f.type, "opus")
AfIsAac(f) ==
  IsAudioFormat(f, "mp4") /\ (Includes(f.type, "aac") \/ Includes(f.type, "mp4a.40.2"))

Indices(list) == [i \in 1..Len(list) |-> i]
Entries(src, tier, idxs) ==
  [k \in 1..Len(idxs) |-> [src |-> src, idx |-> idxs[k], tier |-> tier]]

\* index.ts 568-594: one pass over formatStreams, the opus test then the AAC
\* test on each entry in turn.
RECURSIVE FsLoop(_)
FsLoop(i) ==
  IF i > Len(formatStreams) THEN <<>>
  ELSE LET f == formatStreams[i] IN
       (IF FsIsOpus(f) /\ ~UrlEmpty(f.url)
          THEN <<[src |-> "fs", idx |-> i, tier |-> "fs-opus"]>> ELSE <<>>)
       \o (IF FsIsAac(f) /\ ~UrlEmpty(f.url)
          THEN <<[src |-> "fs", idx |-> i, tier |-> "fs-aac"]>> ELSE <<>>)
       \o FsLoop(i + 1)

\* index.ts 597-605
FsAny ==
  Entries("fs", "fs-any",
          SelectSeq(Indices(formatStreams),
                    LAMBDA i : IsAudioFormat(formatStreams[i], "")
                               /\ ~UrlEmpty(formatStreams[i].url)))
\* index.ts 614-626
AfOpusLoop ==
  Entries("af", "af-opus",
          SelectSeq(Indices(adaptiveFormats),
                    LAMBDA i : AfIsOpus(adaptiveFormats[i])
                               /\ ~UrlEmpty(adaptiveFormats[i].url)))
\* index.ts 629-643
AfAacLoop ==
  Entries("af", "af-aac",
          SelectSeq(Indices(adaptiveFormats),
                    LAMBDA i : AfIsAac(adaptiveFormats[i])
                               /\ ~UrlEmpty(adaptiveFormats[i].url)))
\* index.ts 646-654
AfAny ==
  Entries("af", "af-any",
          SelectSeq(Indices(adaptiveFormats),
                    LAMBDA i : IsAudioFormat(adaptiveFormats[i], "")
                               /\ ~UrlEmpty(adaptiveFormats[i].url)))

\* index.ts 563-655: the tryUrl calls of getStreamURL, in the order it makes them
\* (it stops at the first that returns a URL).
Plan ==
  (IF Len(formatStreams) > 0 THEN FsLoop(1) \o FsAny ELSE <<>>)
  \o (IF Len(adaptiveFormats) > 0 THEN AfOpusLoop \o AfAacLoop \o AfAny ELSE <<>>)

UrlAt(e) ==
  IF e.src = "fs" THEN formatStreams[e.idx].url ELSE adaptiveFormats[e.idx].url

\* index.ts 515-536: what the GET with Range: bytes=0-1 ends in; "timeout" is the
\* abort after 5 s or any other rejection of fetch.
ProbeOutcomes == {"206", "200", "403", "timeout"}
MutTimeoutIsReachable(o) == o \in {"206", "200", "timeout"}
ProbeOk(o) == o \in {"206", "200"}

\* index.ts 756-781: fetchWithTimeout of the metadata.
MetaOutcomes == {"ok", "httpError", "timeout", "networkError"}
MutMetaErrorAsNoStream(o) == IF o = "ok" THEN "none" ELSE "CANNOT_GET_STREAM_URL"
MetaError(o) ==
  CASE o \in {"httpError", "timeout"} -> "CANNOT_RESOLVE_SONG"
    [] o = "networkError" -> "FetchError"
    [] OTHER -> "none"

\* ------------------------------------------------------------------------- Init
SelectIdle ==
  /\ ver = "none"
  /\ formatStreams = <<>>
  /\ adaptiveFormats = <<>>
  /\ spc = "idle"
  /\ pos = 0
  /\ tried = <<>>
  /\ result = EmptyUrl
  /\ serr = "none"

SelectInit ==
  /\ ver \in Versions
  /\ \E a \in SeqUpTo(FsShapes, MaxFormats) :
       \E b \in SeqUpTo(AfShapes, MaxFormats - Len(a)) :
         /\ formatStreams = MkFormatStreams(a)
         /\ adaptiveFormats = MkAdaptiveFormats(b)
  /\ spc = "start"
  /\ pos = 1
  /\ tried = <<>>
  /\ result = EmptyUrl
  /\ serr = "none"

\* ---------------------------------------------------------------------- actions
\* index.ts 479-480 (985-986): the metadata is fetched.
FetchMetadata ==
  /\ spc = "start"
  /\ ver \in {"v2", "v3"}
  /\ \E o \in MetaOutcomes :
       IF o = "ok"
         THEN spc' = "selecting" /\ UNCHANGED serr
         ELSE spc' = "threw" /\ serr' = MetaError(o)
  /\ UNCHANGED <<ver, formatStreams, adaptiveFormats, pos, tried, result>>
  /\ UNCHANGED <<cipherVars, pureVars>>

\* part_002 147: `this.WithTimeout` is not a method of the class (the method is
\* fetchWithTimeout, line 375), so the call throws before anything is fetched.
FetchMetadataDl ==
  /\ spc = "start"
  /\ ver = "dl"
  /\ spc' = "threw"
  /\ serr' = "TypeError"
  /\ UNCHANGED <<ver, formatStreams, adaptiveFormats, pos, tried, result>>
  /\ UNCHANGED <<cipherVars, pureVars>>

\* What selection does to the metadata response. The tier loops (index.ts
\* 568-654) and the find calls (1013-1061) read data.formatStreams and
\* data.adaptiveFormats with for...of and never assign to them or to an
\* entry; tryUrl (539-561) builds the URL it returns from a copy of the string.
RECURSIVE InsertByBitrate(_, _)
InsertByBitrate(f, list) ==
  IF list = <<>> THEN <<f>>
  ELSE IF f.bitrate > Head(list).bitrate THEN <<f>> \o list
  ELSE <<Head(list)>> \o InsertByBitrate(f, Tail(list))
RECURSIVE SortedByBitrate(_)
SortedByBitrate(list) ==
  IF list = <<>> THEN <<>> ELSE InsertByBitrate(Head(list), SortedByBitrate(Tail(list)))
MutResponseSortedInPlace ==
  /\ formatStreams' = formatStreams
  /\ adaptiveFormats' = SortedByBitrate(adaptiveFormats)
ResponseUntouched ==
  /\ formatStreams' = formatStreams
  /\ adaptiveFormats' = adaptiveFormats

\* index.ts 539-561: one tryUrl call, the next of the plan.
TryUrl ==
  /\ spc = "selecting"
  /\ ver = "v2"
  /\ pos <= Len(Plan)
  /\ LET e == Plan[pos]
         u == UrlAt(e)
     IN IF UrlEmpty(u) \/ IsManifestUrl(u)
          THEN /\ pos' = pos + 1
               /\ UNCHANGED <<spc, tried, result>>
          ELSE \E o \in ProbeOutcomes :
                 /\ tried' = Append(tried, [src |-> e.src, idx |-> e.idx,
                                            tier |-> e.tier, outcome |-> o])
                 /\ IF ProbeOk(o)
                      THEN /\ result' = EnsureRatebypass(u)
                           /\ spc' = "returned"
                           /\ UNCHANGED pos
                      ELSE /\ pos' = pos + 1
                           /\ UNCHANGED <<spc, result>>
  /\ ResponseUntouched
  /\ UNCHANGED <<ver, serr>>
  /\ UNCHANGED <<cipherVars, pureVars>>

\* index.ts 657-668: every tryUrl call returned null.
Exhausted ==
  /\ spc = "selecting"
  /\ ver = "v2"
  /\ pos > Len(Plan)
  /\ spc' = "threw"
  /\ serr' = "CANNOT_GET_STREAM_URL"
  /\ ResponseUntouched
  /\ UNCHANGED <<ver, pos, tried, result>>
  /\ UNCHANGED <<cipherVars, pureVars>>

\* index.ts 1013-1061: the format the adaptiveFormats-only revision selects, as
\* an index into adaptiveFormats (0: none).
FirstIndex(hits) == IF Len(hits) = 0 THEN 0 ELSE hits[1]
IsAudioOnly(f) == StartsWith(Mime(f), "audio/")
HasCodec(f, codec) == Includes(Mime(f), codec)
V3Opus ==
  FirstIndex(SelectSeq(Indices(adaptiveFormats),
             LAMBDA i : LET f == adaptiveFormats[i] IN
                        /\ IsAudioOnly(f) /\ ~UrlEmpty(f.url)
                        /\ StartsWith(Mime(f), "audio/webm") /\ HasCodec(f, "opus")))
V3Aac ==
  FirstIndex(SelectSeq(Indices(adaptiveFormats),
             LAMBDA i : LET f == adaptiveFormats[i] IN
                        /\ IsAudioOnly(f) /\ ~UrlEmpty(f.url)
                        /\ StartsWith(Mime(f), "audio/mp4")
                        /\ (HasCodec(f, "mp4a.40.2") \/ HasCodec(f, "aac"))))
V3Any ==
  FirstIndex(SelectSeq(Indices(adaptiveFormats),
             LAMBDA i : LET f == adaptiveFormats[i] IN
                        /\ IsAudioOnly(f) /\ ~UrlEmpty(f.url)
                        /\ ~IsManifestUrl(f.url)))
V3Selected ==
  IF V3Opus # 0 THEN V3Opus ELSE IF V3Aac # 0 THEN V3Aac ELSE V3Any

\* index.ts 1013-1092: selection without any probe.
SelectV3 ==
  /\ spc = "selecting"
  /\ ver = "v3"
  /\ IF V3Selected # 0
       THEN /\ result' = adaptiveFormats[V3Selected].url
            /\ spc' = "returned"
            /\ UNCHANGED serr
       ELSE /\ spc' = "threw"
            /\ serr' = "CANNOT_GET_STREAM_URL"
            /\ UNCHANGED result
  /\ ResponseUntouched
  /\ UNCHANGED <<ver, pos, tried>>
  /\ UNCHANGED <<cipherVars, pureVars>>

SelectNext ==
  \/ FetchMetadata
  \/ FetchMetadataDl
  \/ TryUrl
  \/ Exhausted
  \/ SelectV3

SelectStart == SelectInit /\ CipherInit /\ XfIdle /\ FixIdle /\ UrlIdle /\ ExtIdle
SelectSpec == SelectStart /\ [][SelectNext]_vars

Init == CipherInit /\ SelectIdle /\ XfIdle /\ FixIdle /\ UrlIdle /\ ExtIdle
Next == CipherNext
Spec == Init /\ [][Next]_vars

\* The Cipher Session with the scheduling the runtime guarantees: a continuation
\* whose awaited promise has settled is run, and a response that has begun is
\* read to its end. Nothing obliges the upstream to answer a fetch, and lines
\* 145 and 180 pass fetch() no signal and start no timer, so the settling of a
\* fetch (WatchResponse, PlayerResponse) is not fair.
Continuations(i) ==
  /\ WF_vars(WatchText(i))
  /\ WF_vars(PlayerFetch(i))
  /\ WF_vars(PlayerText(i))
  /\ WF_vars(Build(i))
  /\ WF_vars(Apply(i))
LiveSpec == Init /\ [][Next]_vars /\ \A i \in Callers : Continuations(i)

\* ============================================================ Transform Compiler
\* buildOperations and buildTransform (cipherDecoder.ts 266-333), and the
\* operation table of the first definition of getTransform (68-84).
MaxSteps == 2
MaxArg == 3
MaxLen == 6

\* A string is the sequence of its characters. An array element that is a hole
\* or undefined is UNDEF; Array.prototype.join writes it as the empty string.
UNDEF == "undefined"
Alphabet == <<"a", "b", "c", "d", "e", "f", "g", "h">>
InputLengths == {0, 1, 2, 4, MaxLen}
Inputs == {SubSeq(Alphabet, 1, k) : k \in InputLengths}
Args == 0..MaxArg
Split(n) == [i \in 1..Len(n) |-> n[i]]
Join(arr) == SelectSeq(arr, LAMBDA x : x # UNDEF)

\* ------------------------------------------------------------ the helper object
\* Bodies of helper entries name:function(a,b){body}.
B_REVERSE == "a.reverse()"
B_SPLICE == "a.splice(0,b)"
B_SWAP == "var c=a[0];a[0]=a[b%a.length];a[b]=c"
B_SWAP_MOD == "var c=a[0];a[0]=a[b%a.length];a[b%a.length]=c"
B_ROTATE == "a.push(a.splice(0,b)[0])"
B_OTHER == "a.length=b"

\* body.includes(fragment) for the four fragments buildOperations looks for.
BodyIncludes(body, frag) ==
  CASE frag = "reverse" -> body = B_REVERSE
    [] frag = "splice" -> body \in {B_SPLICE, B_ROTATE}
    [] frag = B_SWAP -> body = B_SWAP
    [] frag = B_ROTATE -> body = B_ROTATE
    [] OTHER -> FALSE

\* The if/else-if chain of lines 277-296 (second definition) and 73-82 (first
\* definition, which has no rotate branch): the operation stored for a body.
OpKind(v, body) ==
  IF BodyIncludes(body, "reverse") THEN "reverse"
  ELSE IF BodyIncludes(body, "splice") THEN "splice"
  ELSE IF BodyIncludes(body, B_SWAP)
    THEN (IF v = "first" THEN "swapFirst" ELSE "swap")
  ELSE IF v = "second" /\ BodyIncludes(body, B_ROTATE) THEN "rotate"
  ELSE "none"

\* lines 270-298: the entries are visited in order, a later entry of the same
\* name overwriting an earlier one; an entry no branch recognises stores nothing.
Recognised(v, hb) == {i \in 1..Len(hb) : OpKind(v, hb[i].body) # "none"}
LastOf(v, hb, nm) ==
  CHOOSE i \in Recognised(v, hb) :
    /\ hb[i].name = nm
    /\ \A j \in Recognised(v, hb) : hb[j].name = nm => j <= i
BuildOperations(v, hb) ==
  [nm \in {hb[i].name : i \in Recognised(v, hb)} |-> OpKind(v, hb[LastOf(v, hb, nm)].body)]

\* ---------------------------------------------------------------- the operations
\* line 278: a.reverse()
ReverseOp(a) == [i \in 1..Len(a) |-> a[Len(a) + 1 - i]]
\* lines 280-282: a.splice(0, b)
SpliceOp(a, b) == SubSeq(a, b + 1, Len(a))
MutSwapOverwrites(a, b) ==
  IF Len(a) = 0 THEN <<UNDEF>>
  ELSE [i \in 1..Len(a) |-> IF i = 1 THEN a[(b % Len(a)) + 1] ELSE a[i]]
\* lines 284-289: idx = b % a.length; c = a[0]; a[0] = a[idx]; a[idx] = c.
\* On the empty array idx is NaN: a[0] becomes undefined and the array has
\* one element.
SwapOp(a, b) ==
  IF Len(a) = 0 THEN <<UNDEF>>
  ELSE LET idx == b % Len(a) IN
       [i \in 1..Len(a) |-> IF i = 1 THEN a[idx + 1]
                            ELSE IF i = idx + 1 THEN a[1] ELSE a[i]]
\* lines 76-80 (first definition): c = a[0]; a[0] = a[b % a.length]; a[b] = c.
\* The write to a[b] extends the array when b >= a.length.
SwapFirstOp(a, b) ==
  IF Len(a) = 0 THEN [i \in 1..(b + 1) |-> UNDEF]
  ELSE LET len == IF b + 1 > Len(a) THEN b + 1 ELSE Len(a) IN
       [i \in 1..len |-> IF i = b + 1 THEN a[1]
                         ELSE IF i = 1 THEN a[(b % Len(a)) + 1]
                         ELSE IF i <= Len(a) THEN a[i] ELSE UNDEF]
\* lines 291-295: while (b-- > 0) a.push(a.splice(0, 1)[0])
RotateOnce(a) == IF Len(a) = 0 THEN <<UNDEF>> ELSE Tail(a) \o <<Head(a)>>
RECURSIVE RotateOp(_, _)
RotateOp(a, b) == IF b = 0 THEN a ELSE RotateOp(RotateOnce(a), b - 1)

ApplyOp(kind, a, b) ==
  CASE kind = "reverse" -> ReverseOp(a)
    [] kind = "splice" -> SpliceOp(a, b)
    [] kind = "swap" -> SwapOp(a, b)
    [] kind = "swapFirst" -> SwapFirstOp(a, b)
    [] kind = "rotate" -> RotateOp(a, b)
    [] OTHER -> a

\* ------------------------------------------------------------ the function body
\* A call of the n-function body, obj.method(a, arg). The regular expression of
\* lines 308-309 wants two name characters before the dot and exactly two
\* between the dot and the parenthesis.
Methods == {"rv", "sp", "sw", "ro", "zz", "r"}
\* reverse takes no argument and "zz" names no entry: two arguments are enough
\* for them. "r" is a one-character mnemonic: Xy.r(a,0).
Calls ==
  [obj : {"Xy"}, method : {"sp", "sw", "ro"}, arg : Args]
  \cup [obj : {"Xy"}, method : {"rv", "zz"}, arg : {0, 1}]
  \cup [obj : {"Xy"}, method : {"r"}, arg : {0}]
CallMatches(c) == Len(c.obj) >= 2 /\ Len(c.method) = 2
\* lines 308-321: the instruction list, in the textual order of the calls.
ParseSteps(body) ==
  LET hits == SelectSeq(body, CallMatches) IN
  [k \in 1..Len(hits) |-> [method |-> hits[k].method, arg |-> hits[k].arg]]

\* lines 325-329: `if (op)` has no else; an instruction whose mnemonic is not
\* in the table leaves the array alone.
MutUnknownAborts(arr) == <<"TypeError">>
UnknownStep(arr) == arr
StepResult(ops, step, arr) ==
  IF step.method \in DOMAIN ops
    THEN ApplyOp(ops[step.method], arr, step.arg)
    ELSE UnknownStep(arr)
\* lines 324-330: the loop over steps, each on the array the previous one left.
RECURSIVE RunSteps(_, _, _)
RunSteps(st, ops, arr) ==
  IF Len(st) = 0 THEN arr
  ELSE RunSteps(Tail(st), ops, StepResult(ops, Head(st), arr))
\* lines 323-332: the closure buildTransform returns.
MutRunsBackwards(st, ops, n) == Join(RunSteps(ReverseOp(st), ops, Split(n)))
Transform(st, ops, n) == Join(RunSteps(st, ops, Split(n)))
\* lines 290-295, 327: an operation receives step.arg by value; the rotate
\* branch decrements its own parameter, the instruction list keeps its numbers.
MutArgsConsumed(st) == [k \in 1..Len(st) |-> [st[k] EXCEPT !.arg = 0]]
StepsAfterCall(st) == st

\* --------------------------------------------------------------------- sources
Entry(nm, body) == [name |-> nm, body |-> body]
FullHelper ==
  <<Entry("rv", B_REVERSE), Entry("sp", B_SPLICE), Entry("sw", B_SWAP),
    Entry("ro", B_ROTATE)>>
HelperBodies ==
  { FullHelper,
    <<Entry("sw", B_SWAP_MOD), Entry("sp", B_SPLICE), Entry("zz", B_OTHER),
      Entry("r", B_REVERSE)>>,
    <<Entry("rv", B_SPLICE), Entry("rv", B_REVERSE), Entry("sp", B_OTHER)>>,
    <<>> }

XfInit ==
  /\ cver \in {"first", "second"}
  /\ helperBody \in HelperBodies
  /\ fnCalls \in (IF cver = "first" THEN {<<>>} ELSE SeqUpTo(Calls, MaxSteps))
  /\ operations = <<>>
  /\ steps = <<>>
  /\ tpc = "source"
  /\ call = NoCall

\* ---------------------------------------------------------------------- actions
\* getTransform lines 347-348 (first definition: 66-84): the table and the
\* Transform are built from the extracted texts.
Compile ==
  /\ tpc = "source"
  /\ operations' = BuildOperations(cver, helperBody)
  /\ steps' = ParseSteps(fnCalls)
  /\ tpc' = "ready"
  /\ UNCHANGED <<cver, helperBody, fnCalls, call>>
  /\ UNCHANGED <<cipherVars, selVars, fixVars, urlVars, extVars>>

Nth == IF call.nth = 0 THEN 1 ELSE 2

\* One call transform(n) of the second definition (lines 323-332).
CallTransform ==
  /\ tpc \in {"ready", "called"}
  /\ cver = "second"
  /\ \E n \in Inputs :
       call' = [kind |-> "transform", name |-> "", arg |-> 0, in |-> n,
                out |-> Transform(steps, operations, n), nth |-> Nth]
  /\ steps' = StepsAfterCall(steps)
  /\ tpc' = "called"
  /\ UNCHANGED <<cver, helperBody, fnCalls, operations>>
  /\ UNCHANGED <<cipherVars, selVars, fixVars, urlVars, extVars>>

\* One call op(arr, num) of an entry of the first definition's table (line 92).
CallEntry ==
  /\ tpc \in {"ready", "called"}
  /\ cver = "first"
  /\ \E nm \in DOMAIN operations, n \in Inputs, b \in Args :
       call' = [kind |-> "entry", name |-> nm, arg |-> b, in |-> n,
                out |-> ApplyOp(operations[nm], Split(n), b), nth |-> Nth]
  /\ tpc' = "called"
  /\ UNCHANGED <<cver, helperBody, fnCalls, operations, steps>>
  /\ UNCHANGED <<cipherVars, selVars, fixVars, urlVars, extVars>>

XfNext ==
  \/ Compile
  \/ CallTransform
  \/ CallEntry

XfStart == XfInit /\ CipherInit /\ SelectIdle /\ FixIdle /\ UrlIdle /\ ExtIdle
XfSpec == XfStart /\ [][XfNext]_vars

\* ======================================================================= fixUrl
\* fixUrl of the second definition (cipherDecoder.ts 365-383). The decodeN call
\* it awaits settles as the Cipher Session decides: resolved with the decoded
\* value, or rejected with one of the errors a decodeN call rejects with.
DecodeErrors == {"watchFetch", "watchStatus", "noJsUrl", "playerFetch",
                 "playerStatus", "fnName", "fnBody", "helperName", "helperBody"}
\* A working decoder, as the upstream script defines it.
Decoded(n) == IF n = "CIPHERED" THEN "PLAIN" ELSE "decoded:" \o n

\* URLs fixUrl is called with: with and without n (one empty, one repeated),
\* with and without ratebypass, and one string that is no URL. A URL is held
\* in parsed form, with how its text is spelled:
\*   "canonical"   the text is what URL.toString and the query serializer write;
\*   "formDiffers" the text is its own href, but a pair of the query is spelled
\*                 otherwise than the query serializer spells it (sig=a~b);
\*   "hrefDiffers" the text is not its own href (HTTPS://HOST?x=1).
Spellings == {"canonical", "formDiffers", "hrefDiffers"}
NQueries == { <<>>, << <<"n", "CIPHERED">> >>, << <<"n", "">> >>,
              << <<"n", "CIPHERED">>, <<"n", "OTHER">> >> }
RbQueries == { <<>>, << <<"ratebypass", "yes">> >>, << <<"ratebypass", "no">> >> }
SigQueries == { <<>>, << <<"sig", "s">> >> }
FixUrls ==
  {[id |-> <<"v">>, dash |-> FALSE, ext |-> "", query |-> a \o b \o c,
    spelling |-> sp] :
     a \in SigQueries, b \in NQueries, c \in RbQueries, sp \in Spellings}
  \cup {EmptyUrl}

\* line 366: new URL(url); the URL object holds the href of the text.
ParseUrl(u) ==
  [u EXCEPT !.spelling = IF @ = "hrefDiffers" THEN "canonical" ELSE @]
\* lines 371, 380: searchParams.set rewrites the query of the URL from the
\* list of pairs, in the serializer's spelling.
QueryRewritten(u) == [u EXCEPT !.spelling = "canonical"]

\* URLSearchParams.get: the first value of the name, or null.
GetParam(u, k) ==
  LET at == {j \in 1..Len(u.query) : u.query[j][1] = k} IN
  IF at = {} THEN "null"
  ELSE u.query[CHOOSE j \in at : \A x \in at : j <= x][2]
\* URLSearchParams.set: the first pair of the name gets the value and the
\* others of that name are removed; a new pair is appended if there is none.
SetParam(u, k, v) ==
  IF ~HasParam(u, k) THEN QueryRewritten([u EXCEPT !.query = Append(@, <<k, v>>)])
  ELSE LET first == CHOOSE j \in 1..Len(u.query) :
                      /\ u.query[j][1] = k
                      /\ \A x \in 1..(j - 1) : u.query[x][1] # k
           kept == SelectSeq([j \in 1..Len(u.query) |->
                                IF j = first THEN <<k, v, "keep">>
                                ELSE IF u.query[j][1] = k THEN <<k, v, "drop">>
                                ELSE <<u.query[j][1], u.query[j][2], "keep">>],
                             LAMBDA q : q[3] = "keep")
       IN QueryRewritten(
            [u EXCEPT !.query = [j \in 1..Len(kept) |-> <<kept[j][1], kept[j][2]>>]])
\* lines 379-381
FixRatebypass(u) ==
  IF ~HasParam(u, "ratebypass") THEN SetParam(u, "ratebypass", "yes") ELSE u

\* lines 368-378: what fixUrl does with a decodeN that rejected with e: the
\* catch logs the message and the function goes on to lines 379-382.
MutDecodeFailureRejects(u, e) == [pc |-> "threw", out |-> "none", warn |-> "none"]
AfterDecodeFailure(u, e) ==
  [pc |-> "returned", out |-> FixRatebypass(ParseUrl(u)), warn |-> e]

\* lines 367-368: `if (n)`, whether fixUrl calls decodeN.
MutAlwaysDecodes(u) == TRUE
NeedsDecode(u) == Truthy(GetParam(u, "n"))

\* What a decodeN call that started on empty caches leaves in them when it
\* settles with outcome e ("ok" or the error it rejects with): the player
\* script it read, "null" when it read none.
ScriptsRead(e) ==
  IF e = "ok" THEN {GoodScript}
  ELSE IF e \in {"watchFetch", "watchStatus", "noJsUrl", "playerFetch", "playerStatus"}
    THEN {"null"}
  ELSE {code \in Scripts : ExtractionError(code) = e}
ReachedPlayer(e) == e \notin {"watchFetch", "watchStatus", "noJsUrl"}

FixInit ==
  /\ fxUrl \in FixUrls
  /\ fxPc = "start"
  /\ fxOut = "none"
  /\ fxWarn = "none"

\* fixUrl(url) is called and runs to its first await (lines 365-370), or to its
\* end when there is no n to decode.
FixStart ==
  /\ fxPc = "start"
  /\ IF UrlEmpty(fxUrl)
       THEN \* line 366: new URL(url) throws
            /\ fxPc' = "threw"
            /\ UNCHANGED <<fxOut, started, watchFetches>>
       ELSE IF NeedsDecode(fxUrl)
       THEN \* line 370: decodeN runs to the fetch of the watch page (line 145)
            /\ fxPc' = "awaitDecode"
            /\ started' = started + 1
            /\ watchFetches' = watchFetches + 1
            /\ UNCHANGED fxOut
       ELSE /\ fxPc' = "returned"
            /\ fxOut' = FixRatebypass(ParseUrl(fxUrl))
            /\ UNCHANGED <<started, watchFetches>>
  /\ UNCHANGED <<fxUrl, fxWarn>>
  /\ UNCHANGED <<cachedTransform, cachedPlayerUrl, cachedPlayerCode, pc, jsCode, err,
                 hist, upstream, playerFetches, builds, finished, failures, overlapped>>
  /\ UNCHANGED <<selVars, xfVars, urlVars, extVars>>

\* `await decodeN(n)` settles (lines 370-382).
FixSettle ==
  /\ fxPc = "awaitDecode"
  /\ \E e \in DecodeErrors \cup {"ok"} :
       /\ IF e = "ok"
            THEN /\ fxPc' = "returned"
                 /\ fxOut' = FixRatebypass(SetParam(ParseUrl(fxUrl), "n",
                                                    Decoded(GetParam(fxUrl, "n"))))
                 /\ UNCHANGED <<fxWarn, failures>>
            ELSE LET r == AfterDecodeFailure(fxUrl, e) IN
                 /\ fxPc' = r.pc
                 /\ fxOut' = r.out
                 /\ fxWarn' = r.warn
                 /\ failures' = failures + 1
       /\ \E code \in ScriptsRead(e) :
            IF code = "null"
              THEN UNCHANGED <<cachedPlayerCode, cachedTransform>>
              ELSE /\ cachedPlayerCode' = CachedAfterRead(code, cachedPlayerCode)
                   /\ cachedTransform' = CachedAfterBuild(code, cachedTransform)
       /\ cachedPlayerUrl' =
            IF ReachedPlayer(e) THEN PlayerUrlOf(GoodPage) ELSE cachedPlayerUrl
       /\ playerFetches' = IF ReachedPlayer(e) THEN playerFetches + 1 ELSE playerFetches
       /\ builds' = IF e = "ok" THEN builds + 1 ELSE builds
  /\ finished' = finished + 1
  /\ UNCHANGED fxUrl
  /\ UNCHANGED <<pc, jsCode, err, hist, upstream, watchFetches, started, overlapped>>
  /\ UNCHANGED <<selVars, xfVars, urlVars, extVars>>

FixNext ==
  \/ FixStart
  \/ FixSettle

FixBegin == FixInit /\ CipherInit /\ SelectIdle /\ XfIdle /\ UrlIdle /\ ExtIdle
FixSpec == FixBegin /\ [][FixNext]_vars

\* ==================================================================== url-utils
\* A URL string is the sequence of the pieces the patterns of url-utils tell
\* apart: scheme, "www.", host, path pieces, "?", "&", parameter names, values.
Schemes == {"http://", "https://", "ftp://"}
Hosts == {"youtube.com", "youtu.be", "example.com"}
UrlPaths == { <<>>, <<"/watch">>, <<"/", "ID">>, <<"/shorts/", "ID">>, <<"/live/", "ID">>,
              <<"/embed/", "ID">>, <<"/playlist">>, <<"/channel/", "UCxxxx">>,
              <<"/@", "handle">>, <<"/c/", "CustomName">>, <<"/user/", "username">>,
              <<"/about">> }
UrlQueries == { <<>>, <<"?", "v=", "ID">>, <<"?", "list=", "PL">>, <<"?", "si=", "xxx">>,
                <<"?", "v=", "ID", "&", "si=", "xxx">>,
                <<"?", "v=", "ID", "&", "list=", "PL">>,
                <<"&", "list=", "PL">>, <<"&", "v=", "ID">> }
MkY(scheme, www, host, path, query) ==
  <<scheme>> \o (IF www THEN <<"www.">> ELSE <<>>) \o <<host>> \o path \o query
YUrls ==
  {MkY(sc, w, h, p, q) : sc \in Schemes, w \in BOOLEAN, h \in Hosts,
                         p \in UrlPaths, q \in UrlQueries}

\* part_001 lines 8-11: url.indexOf("?") and substring(0, q).
StripQuery(url) ==
  LET at == {j \in 1..Len(url) : url[j] = "?"} IN
  IF at = {} THEN url
  ELSE SubSeq(url, 1, (CHOOSE j \in at : \A x \in at : j <= x) - 1)

\* The pieces of the patterns of lines 19-28.
StartsWithPieces(r, p) == Len(r) >= Len(p) /\ SubSeq(r, 1, Len(p)) = p
\* ^https?:\/\/
HttpScheme(u) == Len(u) >= 1 /\ u[1] \in {"http://", "https://"}
\* (www\.)?
OptionalWww(r) == IF Len(r) >= 1 /\ r[1] = "www." THEN Tail(r) ELSE r
\* ^https?:\/\/(www\.)?youtube\.com followed by rest
YoutubeCom(u, rest) ==
  HttpScheme(u) /\ StartsWithPieces(OptionalWww(Tail(u)), <<"youtube.com">> \o rest)
\* \/ at the head of r: "/" is a prefix of every path piece.
SlashThen(r) == Len(r) >= 1 /\ r[1] \in {"/", "/watch", "/shorts/", "/live/", "/embed/",
                                         "/playlist", "/channel/", "/@", "/c/",
                                         "/user/", "/about"}
\* ^https?:\/\/youtu\.be\/
YoutuBe(u) ==
  /\ HttpScheme(u)
  /\ StartsWithPieces(Tail(u), <<"youtu.be">>)
  /\ SlashThen(Tail(Tail(u)))
\* lines 18-29: the ten patterns, in order.
PatternTest(k, u) ==
  CASE k = 1 -> YoutubeCom(u, <<"/watch", "?", "v=">>)
    [] k = 2 -> YoutuBe(u)
    [] k = 3 -> YoutubeCom(u, <<"/shorts/">>)
    [] k = 4 -> YoutubeCom(u, <<"/live/">>)
    [] k = 5 -> YoutubeCom(u, <<"/embed/">>)
    [] k = 6 -> YoutubeCom(u, <<"/playlist">>)
    [] k = 7 -> YoutubeCom(u, <<"/channel/">>)
    [] k = 8 -> YoutubeCom(u, <<"/c/">>)
    [] k = 9 -> YoutubeCom(u, <<"/user/">>)
    [] OTHER -> YoutubeCom(u, <<"/@">>)
NumPatterns == 10

\* part_001 lines 16-31.
IsYouTubeUrl(url) ==
  LET cleanUrl == StripQuery(url) IN
  \E k \in 1..NumPatterns : PatternTest(k, cleanUrl)

\* ---------------------------------------------------------------- captures
\* The text of a path piece between its leading "/" and the next "/".
Word(p) ==
  CASE p = "/watch" -> "watch"       [] p = "/shorts/" -> "shorts"
    [] p = "/live/" -> "live"        [] p = "/embed/" -> "embed"
    [] p = "/playlist" -> "playlist" [] p = "/channel/" -> "channel"
    [] p = "/@" -> "@"               [] p = "/c/" -> "c"
    [] p = "/user/" -> "user"        [] p = "/about" -> "about"
    [] OTHER -> ""
\* Path pieces that end with "/".
ClosedPieces == {"/shorts/", "/live/", "/embed/", "/channel/", "/c/", "/user/"}
\* ([^&]+) at the head of r: the text up to the next "&" ("" when r is empty
\* or begins with "&").
RECURSIVE UpToAmp(_)
UpToAmp(r) ==
  IF r = <<>> \/ Head(r) = "&" THEN "" ELSE Head(r) \o UpToAmp(Tail(r))
\* ([^/?]+) at the head of r: the text up to the next "/" or "?".
RECURSIVE UpToSlash(_)
UpToSlash(r) ==
  IF r = <<>> \/ Head(r) = "?" \/ SlashThen(r) THEN "" ELSE Head(r) \o UpToSlash(Tail(r))
\* \/([^/?]+) at the head of r, r beginning with a path piece.
AfterSlash(r) ==
  IF Head(r) \in ClosedPieces THEN Word(Head(r)) ELSE Word(Head(r)) \o UpToSlash(Tail(r))
\* The capture of a pattern that has no match.
NoMatch == ""
\* /[?&]name=([^&]+)/ on url: the capture of the leftmost match.
ParamCapture(url, name) ==
  LET at == {j \in 1..(Len(url) - 1) :
               /\ url[j] \in {"?", "&"}
               /\ url[j + 1] = name
               /\ UpToAmp(SubSeq(url, j + 2, Len(url))) # ""} IN
  IF at = {} THEN NoMatch
  ELSE LET j == CHOOSE x \in at : \A y \in at : x <= y
       IN UpToAmp(SubSeq(url, j + 2, Len(url)))
\* /host\/([^/?]+)/ with the literal path piece `lit` ("/" for youtu\.be\/).
HostCapture(url, host, lit) ==
  LET at == {j \in 1..(Len(url) - 1) :
               /\ url[j] = host
               /\ IF lit = "/" THEN SlashThen(SubSeq(url, j + 1, Len(url)))
                                    /\ AfterSlash(SubSeq(url, j + 1, Len(url))) # ""
                  ELSE url[j + 1] = lit
                       /\ UpToSlash(SubSeq(url, j + 2, Len(url))) # ""} IN
  IF at = {} THEN NoMatch
  ELSE LET j == CHOOSE x \in at : \A y \in at : x <= y
       IN IF lit = "/" THEN AfterSlash(SubSeq(url, j + 1, Len(url)))
          ELSE UpToSlash(SubSeq(url, j + 2, Len(url)))

\* part_001 lines 36-60: the five patterns in order; "null" when none matches.
ExtractVideoId(url) ==
  LET cleanUrl == StripQuery(url)
      watchMatch == ParamCapture(cleanUrl, "v=")
      shortMatch == HostCapture(cleanUrl, "youtu.be", "/")
      shortsMatch == HostCapture(cleanUrl, "youtube.com", "/shorts/")
      liveMatch == HostCapture(cleanUrl, "youtube.com", "/live/")
      embedMatch == HostCapture(cleanUrl, "youtube.com", "/embed/")
  IN CASE watchMatch # NoMatch -> watchMatch
       [] shortMatch # NoMatch -> shortMatch
       [] shortsMatch # NoMatch -> shortsMatch
       [] liveMatch # NoMatch -> liveMatch
       [] embedMatch # NoMatch -> embedMatch
       [] OTHER -> "null"

\* part_001 lines 65-69.
ExtractPlaylistId(url) ==
  LET cleanUrl == StripQuery(url)
      match == ParamCapture(cleanUrl, "list=")
  IN IF match # NoMatch THEN match ELSE "null"

\* String.prototype.includes for a parameter name: no other piece holds one.
IncludesPiece(url, name) == \E j \in 1..Len(url) : url[j] = name

\* ------------------------------------------------------------- the instance
\* options.instance is a sequence of the pieces "http:", "https:", "/" and
\* a host, so that "http://" is "http:" followed by two "/".
MaxOptLen == 4
OptPieces == {"http:", "https:", "/", "yewtu.be"}
InstanceOptions == SeqUpTo(OptPieces, MaxOptLen)
\* The README's instance (part_000:103) and playlist URL (part_000:107).
ReadmeInstance == <<"yewtu.be">>
ReadmePlaylist == MkY("https://", FALSE, "youtube.com", <<"/playlist">>, <<"?", "list=", "PL">>)

\* replace(/\/+$/, "")
StripTrailingSlashes(str) ==
  LET keep == {j \in 1..Len(str) : str[j] # "/"} IN
  IF keep = {} THEN <<>>
  ELSE SubSeq(str, 1, CHOOSE j \in keep : \A x \in keep : x <= j)
\* startsWith("http://"), startsWith("https://")
StartsWithScheme(str, scheme) == StartsWithPieces(str, <<scheme, "/", "/">>)
\* index.ts 895-899
MutNormalizeKeepsSlashes(opt) ==
  IF ~StartsWithScheme(opt, "http:") /\ ~StartsWithScheme(opt, "https:")
    THEN <<"https:", "/", "/">> \o opt
    ELSE opt
NormalizeInstance(opt) ==
  LET normalized == StripTrailingSlashes(opt) IN
  IF ~StartsWithScheme(normalized, "http:") /\ ~StartsWithScheme(normalized, "https:")
    THEN <<"https:", "/", "/">> \o normalized
    ELSE normalized

\* ------------------------------------------------------------------- actions
UrlInit ==
  /\ \/ yurl \in YUrls /\ yopt = ReadmeInstance
     \/ yurl = ReadmePlaylist /\ yopt \in InstanceOptions
  /\ ypc = "new"
  /\ yout = FALSE
  /\ instance = <<>>
  /\ ygen = 0
  /\ yvia = <<>>
  /\ yreq = NoRequest
  /\ yerr = "none"

\* new InvidiousPlugin({ instance }) (index.ts 890-901).
Construct ==
  /\ ypc = "new"
  /\ ypc' = "start"
  /\ instance' = NormalizeInstance(yopt)
  /\ ygen' = 1
  /\ UNCHANGED <<yurl, yout, yopt, yvia, yreq, yerr>>
  /\ UNCHANGED <<cipherVars, selVars, xfVars, fixVars, extVars>>

\* new InvidiousPlugin({ instance: plugin.instance }): a plugin constructed
\* from the instance value of the one before.
Reconstruct ==
  /\ ypc = "start"
  /\ ygen = 1
  /\ yopt' = instance
  /\ instance' = NormalizeInstance(instance)
  /\ ygen' = 2
  /\ UNCHANGED <<yurl, ypc, yout, yvia, yreq, yerr>>
  /\ UNCHANGED <<cipherVars, selVars, xfVars, fixVars, extVars>>

\* InvidiousPlugin.validate(url) (index.ts 910-912).
Validate ==
  /\ ypc = "start"
  /\ ypc' = "validated"
  /\ yout' = IsYouTubeUrl(yurl)
  /\ UNCHANGED <<yurl, yopt, instance, ygen, yvia, yreq, yerr>>
  /\ UNCHANGED <<cipherVars, selVars, xfVars, fixVars, extVars>>

\* playlist(url) up to its fetch (index.ts 1119-1131), called from `from`.
PlaylistCall(url, from) ==
  LET cleanUrl == StripQuery(url)
      playlistId == ExtractPlaylistId(cleanUrl)
  IN IF playlistId = "null"
       THEN [pc |-> "threw", err |-> "Invalid playlist URL", req |-> NoRequest,
             via |-> Append(from, "playlist")]
       ELSE [pc |-> "requested", err |-> "none", via |-> Append(from, "playlist"),
             req |-> [base |-> instance, path |-> "/api/v1/playlists/", id |-> playlistId]]
\* resolve(url) up to its fetch (index.ts 919-942).
ResolveCall(url) ==
  LET cleanUrl == StripQuery(url)
      videoId == ExtractVideoId(cleanUrl)
  IN IF IncludesPiece(cleanUrl, "list=") /\ ~IncludesPiece(cleanUrl, "v=")
       THEN PlaylistCall(url, <<"resolve">>)
     ELSE IF videoId = "null"
       THEN [pc |-> "threw", err |-> "Invalid YouTube URL", req |-> NoRequest,
             via |-> <<"resolve">>]
       ELSE [pc |-> "requested", err |-> "none", via |-> <<"resolve">>,
             req |-> [base |-> instance, path |-> "/api/v1/videos/", id |-> videoId]]

Resolve ==
  /\ ypc = "start"
  /\ ypc' = ResolveCall(yurl).pc
  /\ yerr' = ResolveCall(yurl).err
  /\ yreq' = ResolveCall(yurl).req
  /\ yvia' = ResolveCall(yurl).via
  /\ UNCHANGED <<yurl, yout, yopt, instance, ygen>>
  /\ UNCHANGED <<cipherVars, selVars, xfVars, fixVars, extVars>>

Playlist ==
  /\ ypc = "start"
  /\ ypc' = PlaylistCall(yurl, <<>>).pc
  /\ yerr' = PlaylistCall(yurl, <<>>).err
  /\ yreq' = PlaylistCall(yurl, <<>>).req
  /\ yvia' = PlaylistCall(yurl, <<>>).via
  /\ UNCHANGED <<yurl, yout, yopt, instance, ygen>>
  /\ UNCHANGED <<cipherVars, selVars, xfVars, fixVars, extVars>>

UrlNext ==
  \/ Construct
  \/ Reconstruct
  \/ Validate
  \/ Resolve
  \/ Playlist

UrlBegin == UrlInit /\ CipherInit /\ SelectIdle /\ XfIdle /\ FixIdle /\ ExtIdle
UrlSpec == UrlBegin /\ [][UrlNext]_vars

\* =================================================================== extractors
\* getPlayerUrl's pattern loop (cipherDecoder.ts 152-170), extractNFunctionName
\* (192-208) and extractHelperObject (248-261). The text searched is given by
\* what each pattern of the list finds in it: no match, or a match with its
\* capture group. A capture is tagged with the pattern it belongs to.
Extractors == {"playerUrl", "fnName", "helperObject"}
\* lines 153-156, 194-199, 250-252: the length of each list.
PatternCount(kind) == IF kind = "helperObject" THEN 3 ELSE 4
\* The texts a capture group can hold. ([^"]+) and ([a-zA-Z0-9$]+) hold at
\* least one character; (.*?) of extractHelperObject may hold none. A player
\* URL capture is absolute ("http...") or relative.
CaptureTexts(kind) ==
  CASE kind = "playerUrl" -> {"https://cdn/base.js", "/s/player/base.js"}
    [] kind = "fnName" -> {"Abc"}
    [] OTHER -> {"", "rv:function(a){a.reverse()}"}
NoHit == [hit |-> FALSE, by |-> 0, text |-> ""]
Finds(kind, k) ==
  {NoHit} \cup {[hit |-> TRUE, by |-> k, text |-> t] : t \in CaptureTexts(kind)}
FindsOf(kind) ==
  {f \in [1..PatternCount(kind) -> UNION {Finds(kind, k) : k \in 1..PatternCount(kind)}] :
     \A k \in 1..PatternCount(kind) : f[k] \in Finds(kind, k)}

\* `if (m && m[1])` (lines 160, 203, 257).
Usable(m) == m.hit /\ m.text # ""
\* The for loop returns at the first pattern that passes the test.
MutLastUsable(finds) ==
  LET ok == {k \in 1..Len(finds) : Usable(finds[k])} IN
  IF ok = {} THEN 0 ELSE CHOOSE k \in ok : \A j \in ok : j <= k
FirstUsable(finds) ==
  LET ok == {k \in 1..Len(finds) : Usable(finds[k])} IN
  IF ok = {} THEN 0 ELSE CHOOSE k \in ok : \A j \in ok : k <= j
\* lines 161-163: m[1].startsWith("http") ? m[1] : "https://www.youtube.com" + m[1]
StartsWithHttp(t) == t = "https://cdn/base.js"
ReturnValue(kind, m) ==
  IF kind = "playerUrl" /\ ~StartsWithHttp(m.text)
    THEN [m EXCEPT !.text = "https://www.youtube.com" \o m.text]
    ELSE m
\* lines 169, 207, 260
ExtractionMessage(kind) ==
  CASE kind = "playerUrl" -> "Could not find player JS URL in watch page"
    [] kind = "fnName" -> "Could not locate n-transform function name"
    [] OTHER -> "Could not extract helper object"

ExtInit ==
  /\ xkind \in Extractors
  /\ xfinds \in FindsOf(xkind)
  /\ xpc = "start"
  /\ xout = NoHit
  /\ xerr = "none"

\* One run of an extractor on the text.
Extract ==
  /\ xpc = "start"
  /\ LET k == FirstUsable(xfinds) IN
     IF k = 0
       THEN /\ xpc' = "threw"
            /\ xerr' = ExtractionMessage(xkind)
            /\ UNCHANGED xout
       ELSE /\ xpc' = "returned"
            /\ xout' = ReturnValue(xkind, xfinds[k])
            /\ UNCHANGED xerr
  /\ UNCHANGED <<xkind, xfinds>>
  /\ UNCHANGED <<cipherVars, selVars, xfVars, fixVars, urlVars>>

ExtNext == Extract

ExtBegin == ExtInit /\ CipherInit /\ SelectIdle /\ XfIdle /\ FixIdle /\ UrlIdle
ExtSpec == ExtBegin /\ [][ExtNext]_vars

\* ------------------------------------------------------- Cipher Session claims

\* C1: when two or more decodeN calls are started before any of them has
\* completed, at most one player-script fetch and one watch-page fetch are
\* issued in total (later callers share the attempt in progress).
C1_SingleFlight ==
  finished = 0 => (playerFetches <= 1 /\ watchFetches <= 1)

\* C2: a step in which a call rejects leaves cachedTransform as it was (null,
\* when no other call overlapped), and cachedTransform is written only by a call
\* whose four extraction steps all succeeded, with the Transform built from the
\* script that call read.
C2_NoPartialCache ==
  [][ /\ (failures' > failures => cachedTransform' = cachedTransform)
      /\ ((failures' > failures /\ ~overlapped) => cachedTransform' = "null")
      /\ (cachedTransform' # cachedTransform =>
            \E i \in Callers :
              /\ pc[i] = "afterCode" /\ pc'[i] = "haveTransform"
              /\ ExtractionError(jsCode[i]) = "none"
              /\ cachedTransform' = TransformOf(jsCode[i])) ]_vars

\* C2 witness: a call rejected in the last extraction step, after the script
\* was fetched and cached, and no Transform is cached.
C2_Witness ==
  \E i \in Callers :
    /\ pc[i] = "failed" /\ err[i] = "helperBody"
    /\ cachedPlayerCode = "script:noHelperBody"
    /\ cachedTransform = "null"

\* C3: a decodeN call started after an earlier call failed, while the upstream
\* serves a correct watch page and player script, does not fail.
C3_RetrySucceeds ==
  \A i \in Callers :
    (hist[i].afterFailure /\ hist[i].good) => pc[i] # "failed"

\* C4: in a sequence of non-overlapping decodeN calls the pipeline runs to
\* success at most once, and a call made when a Transform is cached issues no
\* fetch, runs no extraction and does not fail.
C4_BuildOnce ==
  ~overlapped =>
    /\ builds <= 1
    /\ \A i \in Callers :
         hist[i].ready =>
           (~hist[i].net /\ ~hist[i].extracted /\ pc[i] # "failed")

\* C4 witness: after one successful build, a later non-overlapping call has
\* returned from the cache.
C4_Witness ==
  /\ ~overlapped
  /\ builds = 1
  /\ \E i \in Callers : hist[i].ready /\ pc[i] = "done"

\* ------------------------------------------------------ Stream Selector claims
EveryProbeFailed == \A k \in 1..Len(tried) : ~ProbeOk(tried[k].outcome)
EveryProbeAnswered == \A k \in 1..Len(tried) : ProbeOk(tried[k].outcome)
SelectionEnded ==
  spc = "returned" \/ (spc = "threw" /\ serr = "CANNOT_GET_STREAM_URL")

\* C5: for adaptiveFormats = [one opus audio candidate whose URL carries
\* n=CIPHERED] the URL getStreamURL returns carries n=PLAIN and no longer
\* n=CIPHERED (the URL went through Cipher Session decoding).
C5_CipheredDecoded ==
  ( /\ formatStreams = <<>>
    /\ adaptiveFormats =
         MkAdaptiveFormats(<<[type |-> T_OPUS, kind |-> "ciphered", bitrate |-> 128]>>)
    /\ spc = "returned" )
  => ParamValues(result, "n") = {"PLAIN"}

\* C6: getStreamURL never returns a manifest URL (ending in .mpd or .m3u8, or
\* containing /dash/), whatever the tier of the candidate.
C6_NoManifest ==
  spc = "returned" => ~IsManifestUrl(result)

\* C7: when every reachability probe failed and adaptiveFormats holds a
\* non-manifest audio-only candidate with a URL, getStreamURL returns such a
\* candidate's URL instead of throwing.
LastResortUrls ==
  {adaptiveFormats[i].url :
     i \in {j \in 1..Len(adaptiveFormats) :
              /\ StartsWith(Mime(adaptiveFormats[j]), "audio/")
              /\ ~UrlEmpty(adaptiveFormats[j].url)
              /\ ~IsManifestUrl(adaptiveFormats[j].url)}}
C7_LastResort ==
  (SelectionEnded /\ EveryProbeFailed /\ LastResortUrls # {})
  => /\ spc = "returned"
     /\ \E u \in LastResortUrls : result \in {u, EnsureRatebypass(u)}

\* C8: with formatStreams = [one opus audio candidate] and adaptiveFormats =
\* [one AAC audio candidate], both reachable, getStreamURL returns the
\* pre-signed opus candidate's URL.
C8_PreSignedFirst ==
  ( /\ formatStreams = MkFormatStreams(<<[type |-> T_OPUS, kind |-> "direct"]>>)
    /\ adaptiveFormats =
         MkAdaptiveFormats(<<[type |-> T_AAC, kind |-> "direct", bitrate |-> 128]>>)
    /\ SelectionEnded /\ EveryProbeAnswered )
  => /\ spc = "returned"
     /\ result \in {formatStreams[1].url, EnsureRatebypass(formatStreams[1].url)}

\* C9: when formatStreams holds a reachable opus/webm entry and a reachable
\* AAC/mp4 entry, getStreamURL returns the opus entry whatever their order, and
\* an AAC entry of formatStreams is probed only after every opus entry was.
FsProbeable(i) ==
  ~UrlEmpty(formatStreams[i].url) /\ ~IsManifestUrl(formatStreams[i].url)
FsOpusEntries == {i \in 1..Len(formatStreams) : FsIsOpus(formatStreams[i]) /\ FsProbeable(i)}
FsAacEntries == {i \in 1..Len(formatStreams) : FsIsAac(formatStreams[i]) /\ FsProbeable(i)}
C9_OpusBeforeAac ==
  /\ (spc = "returned" /\ EveryProbeAnswered /\ FsOpusEntries # {} /\ FsAacEntries # {})
       => result.id \in {<<"fs", i>> : i \in FsOpusEntries}
  /\ \A k \in 1..Len(tried) :
       (tried[k].src = "fs" /\ tried[k].idx \in FsAacEntries /\ tried[k].tier = "fs-aac")
         => \A i \in FsOpusEntries :
              \E j \in 1..(k - 1) : tried[j].src = "fs" /\ tried[j].idx = i

\* C10: within one codec tier of adaptiveFormats the candidates are probed in
\* descending bitrate (encounter order among equal bitrates), and every
\* candidate of a tier is probed before any candidate of the next tier.
TierRank(t) ==
  CASE t = "fs-opus" -> 1 [] t = "fs-aac" -> 2 [] t = "fs-any" -> 3
    [] t = "af-opus" -> 4 [] t = "af-aac" -> 5 [] OTHER -> 6
C10_BitrateOrder ==
  \A j, k \in 1..Len(tried) :
    (j < k /\ tried[j].src = "af" /\ tried[k].src = "af")
      => /\ TierRank(tried[j].tier) <= TierRank(tried[k].tier)
         /\ tried[j].tier = tried[k].tier =>
              \/ adaptiveFormats[tried[j].idx].bitrate > adaptiveFormats[tried[k].idx].bitrate
              \/ /\ adaptiveFormats[tried[j].idx].bitrate = adaptiveFormats[tried[k].idx].bitrate
                 /\ tried[j].idx < tried[k].idx

\* C11: in the probing revision a probe that times out, throws or answers any
\* status but 200/206 only marks its candidate unreachable: the probes are
\* issued in selection order, only failed probes are passed over, the URL
\* returned is that of the first candidate whose probe answered 200 or 206, and
\* CANNOT_GET_STREAM_URL is thrown only after every candidate was probed.
Probeable ==
  SelectSeq(Plan, LAMBDA e : ~UrlEmpty(UrlAt(e)) /\ ~IsManifestUrl(UrlAt(e)))
Answered(k) == tried[k].outcome \in {"200", "206"}
C11_UnreachableSkipped ==
  ver = "v2" =>
    /\ Len(tried) <= Len(Probeable)
    /\ \A k \in 1..Len(tried) :
         /\ [src |-> tried[k].src, idx |-> tried[k].idx, tier |-> tried[k].tier]
              = Probeable[k]
         /\ k < Len(tried) => ~Answered(k)
    /\ spc = "returned" =>
         /\ Len(tried) > 0
         /\ Answered(Len(tried))
         /\ result = EnsureRatebypass(UrlAt(Probeable[Len(tried)]))
    /\ spc = "selecting" /\ Len(tried) > 0 => ~Answered(Len(tried))
    /\ spc = "threw" /\ Len(tried) > 0 =>
         /\ serr = "CANNOT_GET_STREAM_URL"
         /\ Len(tried) = Len(Probeable)
         /\ ~Answered(Len(tried))
C11_Witness ==
  /\ spc = "returned"
  /\ Len(tried) = 2
  /\ tried[1].outcome = "timeout"
  /\ tried[2].outcome = "206"

BodyOf(nm) ==
  LET at == {i \in 1..Len(helperBody) : helperBody[i].name = nm} IN
  IF at = {} THEN "none"
  ELSE helperBody[CHOOSE i \in at : \A j \in at : j <= i].body
\* A call that applies exactly one table entry to an array: a call of the entry
\* itself, or a Transform whose instruction list is that one instruction.
OneEntryCall ==
  \/ call.kind = "entry"
  \/ call.kind = "transform" /\ Len(steps) = 1 /\ steps[1].method \in DOMAIN operations
CalledName == IF call.kind = "entry" THEN call.name ELSE steps[1].method
CalledArg == IF call.kind = "entry" THEN call.arg ELSE steps[1].arg

\* C15: the table entry built from a helper entry whose body is the rotate-left
\* fragment a.push(a.splice(0,b)[0]) moves the first element to the end n
\* times; rotate-left(2) on "abcdef" gives "cdefab".
RotateLeft(a, n) == [i \in 1..Len(a) |-> a[((i - 1 + n) % Len(a)) + 1]]
C15_RotateLeft ==
  (OneEntryCall /\ BodyOf(CalledName) = B_ROTATE /\ Len(call.in) > 0)
    => call.out = RotateLeft(call.in, CalledArg)

\* C16: the table entry built from the swap fragment exchanges element 0 with
\* the element at index n mod length of a non-empty array and changes nothing
\* else, for every n >= 0; the length stays the same.
SwapAtOffset(a, n) ==
  [i \in 1..Len(a) |-> IF i = 1 THEN a[(n % Len(a)) + 1]
                       ELSE IF i = (n % Len(a)) + 1 THEN a[1] ELSE a[i]]
C16_SwapAtOffset ==
  (OneEntryCall /\ BodyOf(CalledName) = B_SWAP /\ Len(call.in) > 0)
    => /\ call.out = SwapAtOffset(call.in, CalledArg)
       /\ Len(call.out) = Len(call.in)

\* C17: the Transform applies its instructions in the textual order of the
\* calls in the function body, each to the array the previous one left: the
\* array after k instructions is instruction k applied to the array after k-1.
\* [swap(2), drop(1)] and [drop(1), swap(2)] differ on "abcd".
RECURSIVE ArrayAfter(_)
ArrayAfter(k) ==
  IF k = 0 THEN Split(call.in)
  ELSE StepResult(operations, steps[k], ArrayAfter(k - 1))
Step(m, b) == [method |-> m, arg |-> b]
TwoCharacterCalls == SelectSeq(fnCalls, LAMBDA c : Len(c.method) = 2)
C17_TextualOrder ==
  call.kind = "transform" =>
    /\ Len(steps) = Len(TwoCharacterCalls)
    /\ \A k \in 1..Len(steps) :
         steps[k] = Step(TwoCharacterCalls[k].method, TwoCharacterCalls[k].arg)
    /\ call.out = Join(ArrayAfter(Len(steps)))
    /\ (helperBody = FullHelper /\ call.in = <<"a", "b", "c", "d">>) =>
         /\ steps = <<Step("sw", 2), Step("sp", 1)>> => call.out = <<"b", "a", "d">>
         /\ steps = <<Step("sp", 1), Step("sw", 2)>> => call.out = <<"d", "c", "b">>
C17_Witness ==
  /\ call.kind = "transform"
  /\ helperBody = FullHelper
  /\ steps = <<Step("sw", 2), Step("sp", 1)>>
  /\ call.in = <<"a", "b", "c", "d">>
  /\ call.out = <<"b", "a", "d">>

\* C18: an instruction whose mnemonic is not in the table is skipped; the
\* Transform's result is that of the instruction list without it.
KnownSteps == SelectSeq(steps, LAMBDA st : st.method \in DOMAIN operations)
C18_UnknownSkipped ==
  call.kind = "transform" =>
    call.out = Join(RunSteps(KnownSteps, operations, Split(call.in)))
C18_Witness ==
  /\ call.kind = "transform"
  /\ helperBody = FullHelper
  /\ steps = <<Step("zz", 1), Step("rv", 0)>>
  /\ call.in = <<"a", "b", "c", "d">>
  /\ call.out = <<"d", "c", "b", "a">>

\* C19: whatever calls came before, a call leaves the instruction list and the
\* table as buildTransform and buildOperations made them, and its output is
\* the function of its input that they determine.
C19_Reentrant ==
  tpc = "called" =>
    /\ steps = ParseSteps(fnCalls)
    /\ operations = BuildOperations(cver, helperBody)
    /\ call.kind = "transform" =>
         call.out = Transform(ParseSteps(fnCalls),
                              BuildOperations(cver, helperBody), call.in)
C19_Witness ==
  /\ tpc = "called"
  /\ call.kind = "transform"
  /\ call.nth = 2
  /\ helperBody = FullHelper
  /\ steps = <<Step("ro", 2), Step("sw", 1)>>
  /\ call.in = <<"a", "b", "c", "d">>
  /\ call.out = <<"d", "c">>

\* ------------------------------------------------------------ timeout claims
\* C14: a decodeN call that has issued a fetch eventually returns or fails,
\* even when the upstream never answers.
C14_FetchesBounded ==
  \A i \in Callers :
    (pc[i] \in {"awaitWatch", "awaitPlayer"}) ~> (pc[i] \in {"done", "failed"})

\* ------------------------------------------------------------------ fixUrl claims
\* C13 (as stated): when decodeN rejects, fixUrl resolves to the URL it was
\* given, unmodified.
C13_FailureLeavesUrl ==
  (fxPc = "returned" /\ fxWarn # "none") => fxOut = fxUrl

\* C13 (amended): when decodeN rejects, fixUrl does not reject; it logs the
\* failure and resolves to the URL with every n value as given, the only
\* change being ratebypass=yes, appended when the URL has no ratebypass
\* parameter. fixUrl rejects only for a string that is no URL.
C13_FailureKeepsN ==
  /\ fxPc = "threw" => UrlEmpty(fxUrl)
  /\ (fxPc = "returned" /\ fxWarn # "none") =>
       /\ fxWarn \in DecodeErrors
       /\ ParamValues(fxOut, "n") = ParamValues(fxUrl, "n")
       /\ fxOut.query = IF HasParam(fxUrl, "ratebypass") THEN fxUrl.query
                        ELSE Append(fxUrl.query, <<"ratebypass", "yes">>)
C13_Witness ==
  /\ fxPc = "returned"
  /\ fxWarn = "helperBody"
  /\ fxUrl.query = << <<"sig", "s">>, <<"n", "CIPHERED">> >>
  /\ fxOut.query = << <<"sig", "s">>, <<"n", "CIPHERED">>, <<"ratebypass", "yes">> >>

\* --------------------------------------------------------------- url-utils claims
\* The URL formats the README lists as supported (part_000 lines 85-91), with
\* http:// or https:// and, on youtube.com, an optional www.
ReadmeForms ==
  {MkY(sc, w, "youtube.com", pq[1], pq[2]) :
     sc \in {"http://", "https://"}, w \in BOOLEAN,
     pq \in { <<<<"/watch">>, <<"?", "v=", "ID">>>>,
              <<<<"/shorts/", "ID">>, <<>>>>,
              <<<<"/live/", "ID">>, <<>>>>,
              <<<<"/embed/", "ID">>, <<>>>>,
              <<<<"/playlist">>, <<"?", "list=", "PL">>>>,
              <<<<"/channel/", "UCxxxx">>, <<>>>>,
              <<<<"/@", "handle">>, <<>>>>,
              <<<<"/c/", "CustomName">>, <<>>>>,
              <<<<"/user/", "username">>, <<>>>> }}
  \cup {MkY(sc, FALSE, "youtu.be", <<"/", "ID">>, <<>>) : sc \in {"http://", "https://"}}

\* C20: validate(url) is true for every URL format the README lists.
C20_ReadmeFormsValidate ==
  (ypc = "validated" /\ yurl \in ReadmeForms) => yout = TRUE

\* The README's playlist URL form, with http:// or https:// and an optional www.
PlaylistForms ==
  {MkY(sc, w, "youtube.com", <<"/playlist">>, <<"?", "list=", "PL">>) :
     sc \in {"http://", "https://"}, w \in BOOLEAN}
HasListParam(url) ==
  \E j \in 1..(Len(url) - 1) : url[j] \in {"?", "&"} /\ url[j + 1] = "list="

\* C21: for youtube.com/playlist?list=ID, resolve dispatches to playlist() and
\* playlist() requests /api/v1/playlists/ID from the instance; 'Invalid
\* playlist URL' is thrown only for a URL that carries no list= parameter.
C21_PlaylistResolved ==
  /\ (yvia # <<>> /\ yurl \in PlaylistForms) =>
       /\ yvia \in {<<"resolve", "playlist">>, <<"playlist">>}
       /\ ypc = "requested"
       /\ yreq = [base |-> instance, path |-> "/api/v1/playlists/", id |-> "PL"]
  /\ yerr = "Invalid playlist URL" => ~HasListParam(yurl)

\* The video URL forms of the README, with and without tracking parameters.
VideoForms ==
  {MkY(sc, w, "youtube.com", <<"/watch">>, q) :
     sc \in {"http://", "https://"}, w \in BOOLEAN,
     q \in { <<"?", "v=", "ID">>, <<"?", "v=", "ID", "&", "si=", "xxx">> }}
  \cup {MkY(sc, w, "youtube.com", p, q) :
          sc \in {"http://", "https://"}, w \in BOOLEAN,
          p \in { <<"/shorts/", "ID">>, <<"/live/", "ID">>, <<"/embed/", "ID">> },
          q \in { <<>>, <<"?", "si=", "xxx">> }}
  \cup {MkY(sc, FALSE, "youtu.be", <<"/", "ID">>, q) :
          sc \in {"http://", "https://"}, q \in { <<>>, <<"?", "si=", "xxx">> }}

\* C22: for every supported video URL form, with or without tracking
\* parameters, extractVideoId returns ID, and resolve requests
\* /api/v1/videos/ID and does not throw.
C22_VideoIdExtracted ==
  (yurl \in VideoForms /\ Len(yvia) >= 1 /\ yvia[1] = "resolve") =>
    /\ ExtractVideoId(yurl) = "ID"
    /\ yvia = <<"resolve">>
    /\ ypc = "requested"
    /\ yreq = [base |-> instance, path |-> "/api/v1/videos/", id |-> "ID"]

\* ----------------------------------------------------------- instance claims
EndsWithSlash(str) == Len(str) >= 1 /\ str[Len(str)] = "/"
HasScheme(str) == StartsWithScheme(str, "http:") \/ StartsWithScheme(str, "https:")

\* C23 (as stated): for every instance option string, the instance field
\* starts with http:// or https:// and does not end with "/", and a plugin
\* constructed from that value has the same value.
C23_InstanceNormalized ==
  /\ ygen >= 1 => HasScheme(instance) /\ ~EndsWithSlash(instance)
  /\ ygen = 2 => instance = yopt

\* An option string that is empty or made of "/" only.
OnlySlashes(str) == \A j \in 1..Len(str) : str[j] = "/"
\* C23 (amended): the instance field always starts with http:// or https://;
\* it does not end with "/" when the option string has a character other than
\* "/"; and a plugin constructed from an instance value that does not end
\* with "/" has the same value.
C23_NonEmptyInstanceNormalized ==
  /\ ygen >= 1 => HasScheme(instance)
  /\ (ygen = 1 /\ ~OnlySlashes(yopt)) => ~EndsWithSlash(instance)
  /\ (ygen = 2 /\ ~EndsWithSlash(yopt)) => ~EndsWithSlash(instance) /\ instance = yopt
C23_Witness ==
  /\ ygen = 2
  /\ yopt = <<"https:", "/", "/", "yewtu.be">>
  /\ instance = yopt

\* --------------------------------------------------------- cache lifetime claims
\* C24: under any interleaving of decodeN calls, once cachedTransform is set
\* it is never reset to null and never written again (no other Transform
\* object replaces the cached one).
C24_CacheWrittenOnce ==
  [][cachedTransform # "null" =>
       (cachedTransform' = cachedTransform /\ builds' = builds)]_vars

\* C25: buildTransform turns every invocation identifier.method(arg, integer)
\* of the function body into exactly one (method, integer) instruction, in
\* textual order, for mnemonics of 1 or 2 characters: the instruction list has
\* as many entries as the body has invocations.
C25_EveryCallAnInstruction ==
  tpc \in {"ready", "called"} =>
    /\ Len(steps) = Len(fnCalls)
    /\ \A k \in 1..Len(steps) : steps[k] = Step(fnCalls[k].method, fnCalls[k].arg)

\* -------------------------------------------------------------- extractor claims
Matching == {k \in 1..Len(xfinds) : xfinds[k].hit}
NonEmpty == {k \in 1..Len(xfinds) : xfinds[k].hit /\ xfinds[k].text # ""}
\* C26 (as stated): an extractor returns the capture of the first pattern of
\* its list that matches, and throws only when no pattern matches.
C26_FirstMatchWins ==
  /\ xpc = "returned" => /\ xout.by \in Matching
                         /\ \A j \in Matching : xout.by <= j
  /\ xpc = "threw" => Matching = {}

\* C26 (amended): an extractor returns the capture of the first pattern of its
\* list that matches with a non-empty capture (for the player URL, made
\* absolute), and throws its error exactly when no pattern does; a match with
\* an empty capture counts as no match.
C26_FirstNonEmptyMatchWins ==
  /\ xpc = "returned" =>
       /\ xout.by \in NonEmpty
       /\ \A j \in NonEmpty : xout.by <= j
       /\ xkind # "playerUrl" => xout.text = xfinds[xout.by].text
       /\ xerr = "none"
  /\ xpc = "threw" => NonEmpty = {} /\ xerr = ExtractionMessage(xkind)
  /\ xpc \in {"returned", "threw"} => (xpc = "threw" <=> NonEmpty = {})
\* C26 witness: `var Xy={};` matched with an empty capture, `let Xy={...};` and
\* `const Xy={...};` matched too, and the capture of the let pattern returned.
C26_Witness ==
  /\ xkind = "helperObject"
  /\ xpc = "returned"
  /\ xfinds[1].hit /\ xfinds[1].text = ""
  /\ Usable(xfinds[2]) /\ Usable(xfinds[3])
  /\ xout = xfinds[2]

\* ------------------------------------------------------------ response claims
\* C27: getStreamURL never mutates the metadata response: formatStreams and
\* adaptiveFormats have the same entries in the same order after every step of
\* the call, whether it returns a URL or throws.
C27_ResponseNotMutated ==
  [][formatStreams' = formatStreams /\ adaptiveFormats' = adaptiveFormats]_vars
\* C27 witness: a call returned a URL from a response whose adaptiveFormats
\* are not in descending bitrate order, and the URL it returned got ratebypass
\* added while the entry of the response kept the URL it had.
C27_Witness ==
  /\ spc = "returned"
  /\ Len(adaptiveFormats) = 2
  /\ adaptiveFormats[1].bitrate < adaptiveFormats[2].bitrate
  /\ \E k \in 1..Len(adaptiveFormats) :
       /\ result # adaptiveFormats[k].url
       /\ result = EnsureRatebypass(adaptiveFormats[k].url)

\* ------------------------------------------------------------ cache order claims
\* C28: in every reachable state of the caches, cachedTransform non-null
\* implies cachedPlayerCode non-null, and cachedPlayerCode non-null implies
\* cachedPlayerUrl non-null.
C28_CachesNested ==
  /\ cachedTransform # "null" => cachedPlayerCode # "null"
  /\ cachedPlayerCode # "null" => cachedPlayerUrl # "null"
\* C28 witness: calls overlapped, one of them failed, and all three caches
\* are set.
C28_Witness ==
  /\ overlapped
  /\ failures > 0
  /\ cachedTransform # "null"
  /\ cachedPlayerCode # "null"
  /\ cachedPlayerUrl # "null"

\* ------------------------------------------------------- Transform output claims
\* C29: for every input and every instruction list over the built table, the
\* characters of the Transform's output are a sub-multiset of the input's
\* characters: no character is added, the output is never longer than the
\* input, and the empty string maps to the empty string.
RECURSIVE Occurrences(_, _)
Occurrences(str, ch) ==
  IF Len(str) = 0 THEN 0
  ELSE (IF Head(str) = ch THEN 1 ELSE 0) + Occurrences(Tail(str), ch)
CharsOf(str) == {str[i] : i \in 1..Len(str)}
C29_OutputWithinInput ==
  call.kind = "transform" =>
    /\ \A ch \in CharsOf(call.out) :
         Occurrences(call.out, ch) <= Occurrences(call.in, ch)
    /\ Len(call.out) <= Len(call.in)
    /\ call.in = <<>> => call.out = <<>>
\* C29 witness: a transform that swaps and rotates was called on the empty
\* string and returned the empty string.
C29_Witness ==
  /\ call.kind = "transform"
  /\ helperBody = FullHelper
  /\ steps = <<Step("sw", 1), Step("ro", 1)>>
  /\ call.in = <<>>
  /\ call.out = <<>>

\* ------------------------------------------------------- fixUrl without n claims
\* The Cipher Session as it was before any decodeN call.
SessionUntouched ==
  /\ started = 0
  /\ watchFetches = 0
  /\ playerFetches = 0
  /\ builds = 0
  /\ cachedPlayerUrl = "null"
  /\ cachedPlayerCode = "null"
  /\ cachedTransform = "null"
NoNReturned == fxPc = "returned" /\ ~HasParam(fxUrl, "n")
WithRatebypass(u) ==
  IF HasParam(u, "ratebypass") THEN u
  ELSE [u EXCEPT !.query = Append(@, <<"ratebypass", "yes">>)]

\* C30 (as stated): fixUrl on a URL without an n parameter starts no Cipher
\* Session build, issues no fetch, leaves the three caches unchanged, and
\* returns the URL it was given, changed only by ratebypass=yes added when the
\* URL has no ratebypass parameter.
C30_NoNOnlyAddsRatebypass ==
  NoNReturned =>
    /\ SessionUntouched
    /\ fxOut = WithRatebypass(fxUrl)

\* C30 (amended): fixUrl on a URL without an n parameter starts no Cipher
\* Session build, issues no fetch and leaves the three caches unchanged; the
\* query parameters of the URL it returns are those it was given, in order,
\* with ratebypass=yes appended when there was no ratebypass parameter; the
\* text returned is the URL's href, with the query in the serializer's
\* spelling when ratebypass was added.
C30_NoNKeepsParameters ==
  NoNReturned =>
    /\ SessionUntouched
    /\ fxWarn = "none"
    /\ fxOut.query = WithRatebypass(fxUrl).query
    /\ fxOut.id = fxUrl.id
    /\ fxOut.spelling =
         IF HasParam(fxUrl, "ratebypass") THEN ParseUrl(fxUrl).spelling
         ELSE "canonical"
\* C30 witness: a URL with sig=... only, spelled otherwise than the serializer
\* spells it, came back with ratebypass=yes appended and no fetch issued.
C30_Witness ==
  /\ fxPc = "returned"
  /\ fxUrl.query = << <<"sig", "s">> >>
  /\ fxUrl.spelling = "formDiffers"
  /\ fxOut.query = << <<"sig", "s">>, <<"ratebypass", "yes">> >>
  /\ fxOut.spelling = "canonical"
  /\ watchFetches = 0
  /\ cachedTransform = "null"

====
